---------------------------- MODULE Spec2Model ----------------------------
(***************************************************************************)
(* TWITTER_BRAND_SENTIMENT_ANALYSIS.py as a state machine.                 *)
(*                                                                         *)
(* The script is one sequential run: read two CSV files, concatenate them, *)
(* compute one metrics row per brand, write the metrics CSV, render the    *)
(* dashboard image, add the Category column, render the industry image.    *)
(*                                                                         *)
(* Representation.  A DataFrame is modelled as the bag (multiset) of its   *)
(* rows, and a row by its Brand and Sentiment cells; ID and Tweet are read *)
(* by no computation.  Row order only decides the order of output rows,    *)
(* which is not modelled: brand_metrics_df is the set of its rows, so the  *)
(* trailing sort_values of calculate_brand_metrics leaves it as it is.     *)
(* Percentages are exact rationals [num, den]; a value rounded to two      *)
(* decimals is the integer number of hundredths.                           *)
(***************************************************************************)
EXTENDS Integers, Sequences, FiniteSets, Bags, TLC

VARIABLES
    pc,                \* the statement the run is at
    df_train,          \* line 21
    df_val,            \* line 22
    df,                \* line 25
    Category,          \* the column df['Category'] of line 170, per distinct row
    todo,              \* brands the loop of line 61 has still to visit
    brand_metrics,     \* the list of line 59, as a set of rows
    brand_metrics_df,  \* line 92
    written,           \* output files on disk
    raised             \* the uncaught exception that ended the run, if any

vars == <<pc, df_train, df_val, df, Category, todo, brand_metrics,
          brand_metrics_df, written, raised>>

(***************************************************************************)
(* Bounds of the model.                                                    *)
(***************************************************************************)
\* lines in the two input files together
MaxLines == 3
\* records per sentiment value of the brand in the aggregation runs
MaxCount == 5
\* rows of the table in the categorisation runs
MaxColumn == 2

(***************************************************************************)
(* Values.                                                                 *)
(***************************************************************************)
\* pandas' missing value: an absent or empty field
NaN == "NaN"

Max(a, b) == IF a >= b THEN a ELSE b

Abs(a) == IF a >= 0 THEN a ELSE -a

NoException == [at |-> "", exc |-> ""]

CsvFile == "brand_health_metrics.csv"

DashboardPng == "twitter_sentiment_dashboard.png"

IndustryPng == "industry_sentiment_analysis.png"

Labels == {"Positive", "Negative", "Neutral", "Irrelevant"}

tech_brands == {"Microsoft", "Google", "Apple", "Amazon", "Nvidia"}

gaming_brands ==
    {"CallOfDuty", "FIFA", "CS-GO", "Fortnite", "ApexLegends", "PUBG", "NBA2K",
     "Overwatch", "GTA", "RDR", "Hearthstone", "Dota2", "LeagueOfLegends"}

telecom_brands == {"Verizon", "Comcast", "ATT"}

social_brands == {"Facebook", "Twitter", "Instagram"}

Categories == {"Technology", "Gaming", "Telecom", "Social Media", "Other"}

(***************************************************************************)
(* The input files.  A file is missing or a sequence of lines; a line is   *)
(* the sequence of its fields.                                             *)
(***************************************************************************)
BrandFields == {"Microsoft", "Nike", ""}

SentimentFields == Labels \cup {"Mixed"}

\* well-formed lines: id, brand, sentiment, tweet
FourFieldLines == {<<"1", b, s, "t">> : b \in BrandFields, s \in SentimentFields}

\* a line cut after the brand field
ShortLines == {<<"1", "Microsoft">>}

\* a line with an unquoted comma in the tweet
LongLines == {<<"1", "Microsoft", "Positive", "t", "t">>}

LineValues == FourFieldLines \cup ShortLines \cup LongLines

SeqsUpTo(S, k) == UNION {[1..n -> S] : n \in 0..k}

InputFiles(k) ==
    {[exists |-> FALSE, lines |-> <<>>]}
        \cup {[exists |-> TRUE, lines |-> l] : l \in SeqsUpTo(LineValues, k)}

(***************************************************************************)
(* pd.read_csv(path, names=[ID, Brand, Sentiment, Tweet]), C engine,       *)
(* defaults.  The table is as wide as the longer of the names and the      *)
(* first line; a line with more fields than that is a bad line and raises  *)
(* ParserError (on_bad_lines='error'); a line with fewer has its trailing  *)
(* cells filled with NaN; an empty field is NaN; when the first line has   *)
(* more fields than names, the leading columns become the index and the    *)
(* names move right.                                                       *)
(***************************************************************************)
NamesCount == 4

TableWidth(lines) ==
    IF lines = <<>> THEN NamesCount ELSE Max(Len(lines[1]), NamesCount)

HasBadLine(lines) == \E i \in 1..Len(lines) : Len(lines[i]) > TableWidth(lines)

Cell(line, k) == IF k <= Len(line) /\ line[k] # "" THEN line[k] ELSE NaN

ParseLine(line, lead) ==
    [Brand |-> Cell(line, 2 + lead), Sentiment |-> Cell(line, 3 + lead)]

RECURSIVE FrameOf(_, _)
FrameOf(lines, lead) ==
    IF lines = <<>> THEN EmptyBag
    ELSE SetToBag({ParseLine(Head(lines), lead)}) (+) FrameOf(Tail(lines), lead)

read_csv(file) == FrameOf(file.lines, TableWidth(file.lines) - NamesCount)

ReadError(file) ==
    IF ~file.exists THEN "FileNotFoundError"
    ELSE IF HasBadLine(file.lines) THEN "ParserError"
    ELSE ""

\* len(frame)
Length(frame) == BagCardinality(frame)

\* series == value, elementwise: NaN equals nothing, itself included
Eq(cell, value) == cell # NaN /\ value # NaN /\ cell = value

\* df['Brand'].unique(): the distinct values, NaN among them
UniqueBrands(frame) == {r.Brand : r \in DOMAIN frame}

\* df[df['Brand'] == brand]
BrandData(frame, brand) ==
    [r \in {x \in DOMAIN frame : Eq(x.Brand, brand)} |-> frame[r]]

\* brand_data[brand_data['Sentiment'] == label]
WithSentiment(frame, label) ==
    [r \in {x \in DOMAIN frame : Eq(x.Sentiment, label)} |-> frame[r]]

(***************************************************************************)
(* The arithmetic of calculate_brand_metrics.  (count / total * 100) is a  *)
(* double; it is kept as the exact fraction count * 100 / total.  For the  *)
(* table sizes of the model the double compares to 0, 20 and -20 as the    *)
(* fraction does, and round(x, 2) gives the fraction's nearest hundredth;  *)
(* where the fraction lies exactly halfway between two hundredths the      *)
(* double may fall on either side, so either neighbour is a possible       *)
(* result (up chooses).                                                    *)
(***************************************************************************)
\* (count / total * 100) if total > 0 else 0
Percent(count, total) ==
    IF total > 0 THEN [num |-> count * 100, den |-> total]
    ELSE [num |-> 0, den |-> 1]

IsHalfway(q) == 2 * ((q.num * 100) % q.den) = q.den

\* a rounding that cuts the digits after the second decimal
Round2Truncating(q, up) ==
    LET n == q.num * 100
    IN  IF n >= 0 THEN n \div q.den ELSE -((-n) \div q.den)

\* round(q, 2), in hundredths
Round2(q, up) ==
    LET n == q.num * 100
        lo == n \div q.den
        rest == n % q.den
    IN  IF 2 * rest < q.den THEN lo
        ELSE IF 2 * rest > q.den THEN lo + 1
        ELSE IF up THEN lo + 1 ELSE lo

\* the thresholds taken inclusively
HealthLabelInclusive(score) ==
    IF score.num >= 20 * score.den THEN "Excellent"
    ELSE IF score.num >= 0 THEN "Good"
    ELSE IF score.num <= (-20) * score.den THEN "Poor"
    ELSE "Fair"

\* the conditional expression of line 87
HealthLabel(score) ==
    IF score.num > 20 * score.den THEN "Excellent"
    ELSE IF score.num > 0 THEN "Good"
    ELSE IF score.num < (-20) * score.den THEN "Poor"
    ELSE "Fair"

\* the loop body with the sentiment counts taken over df, the brand filter
\* forgotten
BrandRowCountingAllBrands(brand, brand_data, up) ==
    LET total == Length(brand_data)
        pos == Length(WithSentiment(df, "Positive"))
        neg == Length(WithSentiment(df, "Negative"))
        neu == Length(WithSentiment(df, "Neutral"))
        irr == Length(WithSentiment(df, "Irrelevant"))
        sentiment_score == Percent(pos - neg, total)
        positive_ratio == Percent(pos, total)
        negative_ratio == Percent(neg, total)
    IN  [Brand |-> brand,
         Total_Mentions |-> total,
         Positive |-> pos,
         Negative |-> neg,
         Neutral |-> neu,
         Irrelevant |-> irr,
         Sentiment_Score |-> Round2(sentiment_score, up.score),
         Positive_Ratio |-> Round2(positive_ratio, up.pos),
         Negative_Ratio |-> Round2(negative_ratio, up.neg),
         Brand_Health |-> HealthLabel(sentiment_score)]

\* the loop body with negative_ratio computed from the neutral count
BrandRowNeutralAsNegative(brand, brand_data, up) ==
    LET total == Length(brand_data)
        pos == Length(WithSentiment(brand_data, "Positive"))
        neg == Length(WithSentiment(brand_data, "Negative"))
        neu == Length(WithSentiment(brand_data, "Neutral"))
        irr == Length(WithSentiment(brand_data, "Irrelevant"))
        sentiment_score == Percent(pos - neg, total)
        positive_ratio == Percent(pos, total)
        negative_ratio == Percent(neu, total)
    IN  [Brand |-> brand,
         Total_Mentions |-> total,
         Positive |-> pos,
         Negative |-> neg,
         Neutral |-> neu,
         Irrelevant |-> irr,
         Sentiment_Score |-> Round2(sentiment_score, up.score),
         Positive_Ratio |-> Round2(positive_ratio, up.pos),
         Negative_Ratio |-> Round2(negative_ratio, up.neg),
         Brand_Health |-> HealthLabel(sentiment_score)]

\* the body of the loop, lines 62-88
BrandRow(brand, brand_data, up) ==
    LET total == Length(brand_data)
        pos == Length(WithSentiment(brand_data, "Positive"))
        neg == Length(WithSentiment(brand_data, "Negative"))
        neu == Length(WithSentiment(brand_data, "Neutral"))
        irr == Length(WithSentiment(brand_data, "Irrelevant"))
        sentiment_score == Percent(pos - neg, total)
        positive_ratio == Percent(pos, total)
        negative_ratio == Percent(neg, total)
    IN  [Brand |-> brand,
         Total_Mentions |-> total,
         Positive |-> pos,
         Negative |-> neg,
         Neutral |-> neu,
         Irrelevant |-> irr,
         Sentiment_Score |-> Round2(sentiment_score, up.score),
         Positive_Ratio |-> Round2(positive_ratio, up.pos),
         Negative_Ratio |-> Round2(negative_ratio, up.neg),
         Brand_Health |-> HealthLabel(sentiment_score)]

\* the outcomes of the three roundings of one row
Roundings(brand_data) ==
    LET total == Length(brand_data)
        pos == Length(WithSentiment(brand_data, "Positive"))
        neg == Length(WithSentiment(brand_data, "Negative"))
        Sides(q) == IF IsHalfway(q) THEN BOOLEAN ELSE {FALSE}
    IN  [score : Sides(Percent(pos - neg, total)),
         pos : Sides(Percent(pos, total)),
         neg : Sides(Percent(neg, total))]

\* the telecom branch testing the gaming list a second time
categorize_brand_telecom_lost(brand) ==
    IF brand \in tech_brands THEN "Technology"
    ELSE IF brand \in gaming_brands THEN "Gaming"
    ELSE IF brand \in gaming_brands THEN "Telecom"
    ELSE IF brand \in social_brands THEN "Social Media"
    ELSE "Other"

\* lines 158-168
categorize_brand(brand) ==
    IF brand \in tech_brands THEN "Technology"
    ELSE IF brand \in gaming_brands THEN "Gaming"
    ELSE IF brand \in telecom_brands THEN "Telecom"
    ELSE IF brand \in social_brands THEN "Social Media"
    ELSE "Other"

(***************************************************************************)
(* The run.                                                                *)
(***************************************************************************)
Init ==
    /\ pc = "load_train"
    /\ df_train = EmptyBag
    /\ df_val = EmptyBag
    /\ df = EmptyBag
    /\ Category = EmptyBag
    /\ todo = {}
    /\ brand_metrics = {}
    /\ brand_metrics_df = {}
    /\ written = {}
    /\ raised = NoException

Raise(stage, exception) ==
    /\ pc' = "raised"
    /\ raised' = [at |-> stage, exc |-> exception]

\* line 21
LoadTrain ==
    /\ pc = "load_train"
    /\ \E file \in InputFiles(MaxLines) :
          IF ReadError(file) # ""
          THEN /\ Raise("load", ReadError(file))
               /\ UNCHANGED df_train
          ELSE /\ df_train' = read_csv(file)
               /\ pc' = "load_val"
               /\ UNCHANGED raised
    /\ UNCHANGED <<df_val, df, Category, todo, brand_metrics, brand_metrics_df,
                   written>>

\* line 22
LoadVal ==
    /\ pc = "load_val"
    /\ \E file \in InputFiles(MaxLines - Length(df_train)) :
          IF ReadError(file) # ""
          THEN /\ Raise("load", ReadError(file))
               /\ UNCHANGED df_val
          ELSE /\ df_val' = read_csv(file)
               /\ pc' = "concat"
               /\ UNCHANGED raised
    /\ UNCHANGED <<df_train, df, Category, todo, brand_metrics,
                   brand_metrics_df, written>>

\* line 25
Concat ==
    /\ pc = "concat"
    /\ df' = df_train (+) df_val
    /\ pc' = "calculate_brand_metrics"
    /\ UNCHANGED <<df_train, df_val, Category, todo, brand_metrics,
                   brand_metrics_df, written, raised>>

\* line 92 enters the function: lines 59 and 61
CallBrandMetrics ==
    /\ pc = "calculate_brand_metrics"
    /\ brand_metrics' = {}
    /\ todo' = UniqueBrands(df)
    /\ pc' = "for_brand"
    /\ UNCHANGED <<df_train, df_val, df, Category, brand_metrics_df, written,
                   raised>>

\* one iteration of the loop, lines 61-88.  An iteration reads df alone, so
\* the order of the iterations does not change the rows.
ForBrand ==
    /\ pc = "for_brand"
    /\ todo # {}
    /\ LET brand == CHOOSE b \in todo : TRUE
           brand_data == BrandData(df, brand)
       IN  /\ \E up \in Roundings(brand_data) :
                 brand_metrics' =
                     brand_metrics \cup {BrandRow(brand, brand_data, up)}
           /\ todo' = todo \ {brand}
    /\ UNCHANGED <<pc, df_train, df_val, df, Category, brand_metrics_df,
                   written, raised>>

\* lines 90 and 92: sort_values('Total_Mentions') of a frame built from an
\* empty list raises KeyError, the frame having no columns
ReturnBrandMetrics ==
    /\ pc = "for_brand"
    /\ todo = {}
    /\ IF brand_metrics = {}
       THEN /\ Raise("aggregate", "KeyError")
            /\ UNCHANGED brand_metrics_df
       ELSE /\ brand_metrics_df' = brand_metrics
            /\ pc' = "to_csv"
            /\ UNCHANGED raised
    /\ UNCHANGED <<df_train, df_val, df, Category, todo, brand_metrics, written>>

\* a file is written, or the write raises OSError
WriteFile(name, stage, next) ==
    \E ok \in BOOLEAN :
        IF ok
        THEN /\ written' = written \cup {name}
             /\ pc' = next
             /\ UNCHANGED raised
        ELSE /\ Raise(stage, "OSError")
             /\ UNCHANGED written

\* the metrics are never saved
SaveMetricsSkipped ==
    /\ pc = "to_csv"
    /\ pc' = "dashboard"
    /\ UNCHANGED <<df_train, df_val, df, Category, todo, brand_metrics,
                   brand_metrics_df, written, raised>>

\* line 100
SaveMetrics ==
    /\ pc = "to_csv"
    /\ WriteFile(CsvFile, "write", "dashboard")
    /\ UNCHANGED <<df_train, df_val, df, Category, todo, brand_metrics,
                   brand_metrics_df>>

\* lines 104-148
RenderDashboard ==
    /\ pc = "dashboard"
    /\ WriteFile(DashboardPng, "render", "categorize")
    /\ UNCHANGED <<df_train, df_val, df, Category, todo, brand_metrics,
                   brand_metrics_df>>

\* line 170
Categorize ==
    /\ pc = "categorize"
    /\ Category' = [r \in DOMAIN df |-> categorize_brand(r.Brand)]
    /\ pc' = "industry"
    /\ UNCHANGED <<df_train, df_val, df, todo, brand_metrics, brand_metrics_df,
                   written, raised>>

\* lines 172-193; the report of lines 195-227 only prints
RenderIndustry ==
    /\ pc = "industry"
    /\ WriteFile(IndustryPng, "render", "done")
    /\ UNCHANGED <<df_train, df_val, df, Category, todo, brand_metrics,
                   brand_metrics_df>>

Next ==
    \/ LoadTrain
    \/ LoadVal
    \/ Concat
    \/ CallBrandMetrics
    \/ ForBrand
    \/ ReturnBrandMetrics
    \/ SaveMetrics
    \/ RenderDashboard
    \/ Categorize
    \/ RenderIndustry

Spec == Init /\ [][Next]_vars


(***************************************************************************)
(* Runs of calculate_brand_metrics over larger tables: the run has loaded  *)
(* the records of one brand, any number from CountValues per sentiment     *)
(* label, all from the training file, and is about to call the function.   *)
(***************************************************************************)
\* larger numbers of records, among them sizes where the score lies within
\* 0.005 of a threshold (801 of 4004, 1 of 20002)
BulkCounts == {801, 3203, 20001}

CountValues == (0..MaxCount) \cup BulkCounts

OneBrandFrame(brand, count) ==
    [r \in {[Brand |-> brand, Sentiment |-> s] :
                s \in {x \in DOMAIN count : count[x] > 0}}
        |-> count[r.Sentiment]]

InitMetrics ==
    /\ pc = "calculate_brand_metrics"
    /\ \E count \in [Labels -> CountValues] :
          /\ df_train = OneBrandFrame("Microsoft", count)
          /\ df = df_train
    /\ df_val = EmptyBag
    /\ Category = EmptyBag
    /\ todo = {}
    /\ brand_metrics = {}
    /\ brand_metrics_df = {}
    /\ written = {}
    /\ raised = NoException

NextMetrics ==
    \/ CallBrandMetrics
    \/ ForBrand
    \/ ReturnBrandMetrics

SpecMetrics == InitMetrics /\ [][NextMetrics]_vars

(***************************************************************************)
(* Runs of the categorisation over every brand of the four lists and some  *)
(* that are in none: the run has loaded up to MaxColumn records, computed  *)
(* and saved the metrics, rendered the dashboard, and is at line 170.      *)
(***************************************************************************)
BrandValues ==
    tech_brands \cup gaming_brands \cup telecom_brands \cup social_brands
        \cup {"Nike", "microsoft", NaN}

NoHalfway == [score |-> FALSE, pos |-> FALSE, neg |-> FALSE]

BrandColumns ==
    {FrameOf(l, 0) :
        l \in SeqsUpTo({<<"1", IF b = NaN THEN "" ELSE b, "Positive", "t">> :
                            b \in BrandValues}, MaxColumn) \ {<<>>}}

InitCategorize ==
    /\ pc = "categorize"
    /\ df_train \in BrandColumns
    /\ df = df_train
    /\ df_val = EmptyBag
    /\ Category = EmptyBag
    /\ todo = {}
    /\ brand_metrics =
          {BrandRow(b, BrandData(df, b), NoHalfway) : b \in UniqueBrands(df)}
    /\ brand_metrics_df = brand_metrics
    /\ written = {CsvFile, DashboardPng}
    /\ raised = NoException

NextCategorize == Categorize

SpecCategorize == InitCategorize /\ [][NextCategorize]_vars


(***************************************************************************)
(* The properties.                                                         *)
(***************************************************************************)
\* every row calculate_brand_metrics has produced so far
Rows == brand_metrics \cup brand_metrics_df

\* the score of a row as computed by hand from its counts, times its total
HandScoreTimes100(row) == (row.Positive - row.Negative) * 100

RECURSIVE SumOfTotals(_)
SumOfTotals(rows) ==
    IF rows = {} THEN 0
    ELSE LET row == CHOOSE x \in rows : TRUE
         IN  row.Total_Mentions + SumOfTotals(rows \ {row})

\* a loaded table holds a row whose sentiment is none of the four labels:
\* a line with an unknown label, or a line too short to have the field
MalformedRowLoaded ==
    \E r \in DOMAIN df_train \cup DOMAIN df_val : r.Sentiment \notin Labels

\* C1: in every row calculate_brand_metrics produces, Positive + Negative +
\* Neutral + Irrelevant equals Total_Mentions.
C1_CountsSumToTotal ==
    \A row \in Rows :
        row.Positive + row.Negative + row.Neutral + row.Irrelevant
            = row.Total_Mentions

\* C2: the health label of every row follows from the row's sentiment score
\* (pos - neg) / total * 100 (0 for an empty brand) by strict thresholds:
\* above 20 Excellent, above 0 and up to 20 Good, below -20 Poor, otherwise
\* Fair; so 20 is Good, and 0 and -20 are Fair.
C2_HealthByStrictThresholds ==
    \A row \in Rows :
        LET t == Max(row.Total_Mentions, 1)
            s == IF row.Total_Mentions > 0 THEN HandScoreTimes100(row) ELSE 0
        IN  /\ s > 20 * t => row.Brand_Health = "Excellent"
            /\ (0 < s /\ s <= 20 * t) => row.Brand_Health = "Good"
            /\ s < (-20) * t => row.Brand_Health = "Poor"
            /\ ((-20) * t <= s /\ s <= 0) => row.Brand_Health = "Fair"

\* a brand whose score is exactly 20 has been labelled Good
C2_Witness ==
    \E row \in brand_metrics_df :
        /\ row.Total_Mentions > 0
        /\ HandScoreTimes100(row) = 20 * row.Total_Mentions
        /\ row.Brand_Health = "Good"

\* C3 as stated: the Sentiment_Score of every row with mentions equals
\* (pos - neg) / total * 100 exactly.
C3_ScoreIsExact ==
    \A row \in Rows :
        row.Total_Mentions > 0 =>
            row.Sentiment_Score * row.Total_Mentions
                = HandScoreTimes100(row) * 100

\* C3 amended: the Sentiment_Score of every row is (pos - neg) / total * 100
\* rounded to two decimals, so within 0.005 of it (and equal to it when it
\* has at most two decimals); it is 0 for a row without mentions.
C3_ScoreIsRounded ==
    \A row \in Rows :
        IF row.Total_Mentions > 0
        THEN 2 * Abs(row.Sentiment_Score * row.Total_Mentions
                        - HandScoreTimes100(row) * 100) <= row.Total_Mentions
        ELSE row.Sentiment_Score = 0

\* a row whose written score differs from the hand-computed one
C3_Witness ==
    \E row \in brand_metrics_df :
        /\ row.Total_Mentions > 0
        /\ row.Sentiment_Score * row.Total_Mentions
              # HandScoreTimes100(row) * 100

\* C4: in every row Sentiment_Score lies in [-100, 100] and Positive_Ratio
\* and Negative_Ratio lie in [0, 100].
C4_ScoreAndRatiosInRange ==
    \A row \in Rows :
        /\ -10000 <= row.Sentiment_Score /\ row.Sentiment_Score <= 10000
        /\ 0 <= row.Positive_Ratio /\ row.Positive_Ratio <= 10000
        /\ 0 <= row.Negative_Ratio /\ row.Negative_Ratio <= 10000

\* a table with a brand at -100 and a brand at +100
C4_Witness ==
    /\ \E row \in brand_metrics_df :
          row.Sentiment_Score = -10000 /\ row.Negative_Ratio = 10000
    /\ \E row \in brand_metrics_df :
          row.Sentiment_Score = 10000 /\ row.Positive_Ratio = 10000

\* the Category column is filled in
Categorized == pc = "industry"

\* C5: categorize_brand maps every brand to exactly one of the five
\* categories, to Other when the brand is in none of the four lists, the
\* same brand always to the same category, and applying it changes nothing
\* but the Category column.
C5_CategorizeIsTotalAndPure ==
    /\ [](Categorized =>
            /\ DOMAIN Category = DOMAIN df
            /\ \A r \in DOMAIN df :
                  /\ Category[r] \in Categories
                  /\ r.Brand \in tech_brands <=> Category[r] = "Technology"
                  /\ r.Brand \in gaming_brands <=> Category[r] = "Gaming"
                  /\ r.Brand \in telecom_brands <=> Category[r] = "Telecom"
                  /\ r.Brand \in social_brands <=> Category[r] = "Social Media"
                  /\ (r.Brand \notin tech_brands \cup gaming_brands
                          \cup telecom_brands \cup social_brands)
                        <=> Category[r] = "Other"
            /\ \A r1, r2 \in DOMAIN df :
                  r1.Brand = r2.Brand => Category[r1] = Category[r2])
    /\ [][pc = "categorize" =>
            UNCHANGED <<df_train, df_val, df, todo, brand_metrics,
                        brand_metrics_df, written, raised>>]_vars

\* a listed brand and an unlisted one have been categorised
C5_Witness ==
    /\ Categorized
    /\ \E r \in DOMAIN df : Category[r] = "Other" /\ r.Brand # NaN
    /\ \E r \in DOMAIN df : Category[r] = "Social Media"

\* C6: a run whose input file is missing or holds a malformed line ends
\* with an error raised in the load stage and writes no output file: an
\* error of the load stage leaves nothing written, and no run that has
\* loaded a malformed row writes a file or completes.
C6_BadInputIsFatalAtLoad ==
    /\ raised.at = "load" => written = {}
    /\ MalformedRowLoaded => written = {} /\ pc # "done"

C8_ScoreIsDifferenceOfRatios ==
    \A row \in Rows :
        row.Sentiment_Score = row.Positive_Ratio - row.Negative_Ratio

\* C8 amended: in every row the written Sentiment_Score differs from the
\* written Positive_Ratio minus the written Negative_Ratio by at most 0.01.
C8_ScoreNearDifferenceOfRatios ==
    \A row \in Rows :
        Abs(row.Sentiment_Score - (row.Positive_Ratio - row.Negative_Ratio))
            <= 1

\* a row whose written score is 0.01 off the difference of its ratios
C8_Witness ==
    \E row \in brand_metrics_df :
        Abs(row.Sentiment_Score - (row.Positive_Ratio - row.Negative_Ratio))
            = 1

\* C9: the rows of calculate_brand_metrics partition the loaded records:
\* one row per distinct brand, every row with at least one mention, and
\* the mentions of all rows adding up to the number of records.
C9_RowsPartitionRecords ==
    pc \in {"to_csv", "dashboard", "categorize", "industry", "done"} =>
        /\ \A b \in UniqueBrands(df) :
              Cardinality({row \in brand_metrics_df : row.Brand = b}) = 1
        /\ \A row \in brand_metrics_df :
              row.Brand \in UniqueBrands(df) /\ row.Total_Mentions >= 1
        /\ SumOfTotals(brand_metrics_df) = Length(df)

\* C10: in every row Brand_Health is the label the thresholds assign to the
\* Sentiment_Score written in the row: above 20.00 Excellent, above 0.00
\* Good, below -20.00 Poor, otherwise Fair.
C10_HealthMatchesWrittenScore ==
    \A row \in Rows :
        row.Brand_Health =
            IF row.Sentiment_Score > 2000 THEN "Excellent"
            ELSE IF row.Sentiment_Score > 0 THEN "Good"
            ELSE IF row.Sentiment_Score < -2000 THEN "Poor"
            ELSE "Fair"


=============================================================================
